---- MODULE Spec2Model ----
(***************************************************************************)
(* Model of rpc/oauth/web_oauth.go: the web-OAuth auth handler that        *)
(* validates externally issued JWT access tokens for the rpc server.       *)
(*                                                                         *)
(* The handler's methods (Authenticate, VerifyEntity, CreateClaims,        *)
(* TokenVerificationKey), the claims' methods (Entity, Valid) and the      *)
(* issuer (SignWebAuthAccessToken) are operators translated from the       *)
(* source.  A method that calls a collaborator returns, beside its result, *)
(* the calls it made, so that the actions can log them.                    *)
(*                                                                         *)
(* The collaborators are not in web_oauth.go: the key provider             *)
(* (jwks.KeyProvider), the entity verifier callback, the base claims type  *)
(* (rpc.JWTClaims) and the rpc server's token-parsing routine that drives  *)
(* one verification attempt.  They are modelled from the design document.  *)
(* jwt.RegisteredClaims.VerifyAudience is the golang-jwt/jwt/v4 routine    *)
(* the source calls at line 50.                                            *)
(***************************************************************************)
EXTENDS Integers, Sequences, FiniteSets, TLC

(* ------------------------------ bounds -------------------------------- *)

\* Concurrent verification attempts on the one handler.
NumAttempts == 2
\* The clock runs over 0..MaxTime; token dates are drawn from the same range.
MaxTime == 1
\* Longest audience list of a received token.
MaxAudLen == 2

Attempts == 1..NumAttempts
Times == 0..MaxTime

(* ----------------------------- constants ------------------------------ *)

\* context.TODO(), the unscoped context of the key lookup (line 118).  The
\* context of attempt a is a itself, so no caller context equals it.
ContextTODO == 0
Ctx(a) == a

CredentialsTypeOAuthWeb == "oauth-web-auth"

\* nil: a nil key, a nil identity object, a nil callback.
Nil == "<nil>"
NoErr == ""

ErrKid == "kid not valid"
ErrAud == "invalid aud"
ErrEmail == "missing email in rpc_auth_md"
ErrUnimplemented == "Unimplemented: not implemented with webauth"
ErrConfig == "Internal: invalid verify entity configuration"
\* errors of the collaborators
ErrExpired == "token is expired"
ErrIssuedAt == "token used before issued"
ErrSignature == "crypto/rsa: verification error"
ErrKeyNotFound == "jwks: key not found"
ErrKeyUnreachable == "jwks: provider unreachable"
ErrRejected == "entity rejected"

(* ------------------------------ values -------------------------------- *)

AudStrings == {"", "svc-a", "svc-b"}
\* entity strings, the empty one included
Entities == {"", "u123", "u@example.com"}
Issuers == {"idp"}
KeyIDs == {"k1", "k2", "k-missing"}
PrivateKeys == {"priv1", "priv2"}
\* private key, matching public key
KeyPairs == {<<"priv1", "pub1">>, <<"priv2", "pub2">>}

SeqsUpTo(S, n) == UNION {[1..k -> S] : k \in 0..n}
AudLists == SeqsUpTo(AudStrings, MaxAudLen)

\* A *jwt.NumericDate: nil is {}, a date t is {t}.
NoDate == {}
Dates == {NoDate} \cup {{t} : t \in Times}

\* map[string]string
EmptyMap == [k \in {} |-> ""]
EmailMap(e) == [k \in {"email"} |-> e]
MetaMaps == {EmptyMap} \cup {EmailMap(e) : e \in Entities} \cup {[k \in {"name"} |-> "u"]}

\* token.Header["kid"]: absent, a JSON number, or a string.
StrKid(s) == [t |-> "string", s |-> s]
KidValues == {[t |-> "absent", s |-> ""], [t |-> "number", s |-> "7"]}
               \cup {StrKid(k) : k \in KeyIDs}

(* ------------------------ handler configuration ----------------------- *)

\* WebOAuthOptions: AllowedAudience, KeyProvider, EntityVerifier (Logger is
\* never read).  The key provider is the map of the keys it serves.
ProviderKeys == [k \in {"k1", "k2"} |-> IF k = "k1" THEN "pub1" ELSE "pub2"]
WebOAuthOptions ==
  [AllowedAudience : {"", "svc-a"},
   KeyProvider : {ProviderKeys},
   EntityVerifier : {Nil, "verifier"}]

\* WithWebOAuthTokenAuthHandler: the handler embeds the options unchanged.
WithWebOAuthTokenAuthHandler(opts) == opts

(* --------------------------- collaborators ---------------------------- *)

\* jwks.KeyProvider.LookupKey(ctx, keyID): the key of a known identifier, a
\* failure for an unknown one, or a failure when the provider is unreachable.
LookupKey(provider, ctx, keyID, reachable) ==
  IF ~reachable THEN [key |-> Nil, err |-> ErrKeyUnreachable]
  ELSE IF keyID \in DOMAIN provider THEN [key |-> provider[keyID], err |-> NoErr]
  ELSE [key |-> Nil, err |-> ErrKeyNotFound]

\* The EntityVerifier callback: accepts the entity with an identity object,
\* or rejects it.
EntityVerifierCall(ctx, entity, accept) ==
  IF accept THEN [info |-> entity, err |-> NoErr]
  ELSE [info |-> Nil, err |-> ErrRejected]

\* jwt.RegisteredClaims.VerifyAudience(cmp, required) of golang-jwt/jwt/v4:
\* an empty list, or a list of empty strings only, is a missing audience.
VerifyAudience(aud, cmp, required) ==
  IF Len(aud) = 0 THEN ~required
  ELSE IF \A i \in 1..Len(aud) : aud[i] = "" THEN ~required
  ELSE \E i \in 1..Len(aud) : aud[i] = cmp

\* rpc.JWTClaims.Valid(): the base validation of the registered claims.  A
\* date that is absent is not checked; a later failure replaces an earlier.
JWTClaimsValid(c, t) ==
  IF \E i \in c.iat : t < i THEN ErrIssuedAt
  ELSE IF \E e \in c.exp : t >= e THEN ErrExpired
  ELSE NoErr

\* RS256 verification of a token's signature with a public key.
RS256Verify(tok, key) ==
  /\ tok.header.alg = "RS256"
  /\ <<tok.sig.key, key>> \in KeyPairs
  /\ tok.sig.over = [header |-> tok.header, claims |-> tok.claims]

(* ------------------------------ claims -------------------------------- *)

\* &webOAuthClaims{allowedAudience: aud}: every other field zero.
NewClaims(aud) ==
  [allowedAudience |-> aud,
   aud |-> <<>>, iss |-> "", sub |-> "", exp |-> NoDate, iat |-> NoDate,
   creds |-> "", md |-> EmptyMap]

\* The wire payload of rpc.JWTClaims: the exported fields under their JSON
\* names.
EncodeClaims(c) ==
  [aud |-> c.aud, iss |-> c.iss, sub |-> c.sub, exp |-> c.exp, iat |-> c.iat,
   rpc_creds_type |-> c.creds, rpc_auth_md |-> c.md]

\* The server decodes the payload into the claims object: allowedAudience is
\* unexported and keeps the value CreateClaims gave it.
Unmarshal(c, p) ==
  [c EXCEPT !.aud = p.aud, !.iss = p.iss, !.sub = p.sub, !.exp = p.exp,
            !.iat = p.iat, !.creds = p.rpc_creds_type, !.md = p.rpc_auth_md]

\* webOAuthClaims.Entity
EntityFromSubject(c) == [entity |-> c.sub, err |-> NoErr]
Entity(c) ==
  IF "email" \in DOMAIN c.md THEN [entity |-> c.md["email"], err |-> NoErr]
  ELSE [entity |-> "", err |-> ErrEmail]

\* webOAuthClaims.Valid
ValidAudienceOptional(c, t) ==
  IF ~VerifyAudience(c.aud, c.allowedAudience, FALSE) THEN ErrAud
  ELSE JWTClaimsValid(c, t)
ValidAudienceOnly(c, t) ==
  IF ~VerifyAudience(c.aud, c.allowedAudience, TRUE) THEN ErrAud
  ELSE NoErr
Valid(c, t) ==
  IF ~VerifyAudience(c.aud, c.allowedAudience, TRUE) THEN ErrAud
  ELSE JWTClaimsValid(c, t)

(* ------------------------------ handler ------------------------------- *)

\* webOAuthHandler.Authenticate
AuthenticateViaVerifier(h, ctx, entity, payload) ==
  [md |-> EmailMap(entity), err |-> NoErr, lookups |-> <<>>,
   verifies |-> <<[ctx |-> ctx, entity |-> entity]>>]
Authenticate(h, ctx, entity, payload) ==
  [md |-> Nil, err |-> ErrUnimplemented, lookups |-> <<>>, verifies |-> <<>>]

\* webOAuthHandler.VerifyEntity
VerifyEntityUnscoped(h, ctx, entity, accept) ==
  IF h.EntityVerifier = Nil
  THEN [info |-> Nil, err |-> ErrConfig, calls |-> <<>>]
  ELSE LET r == EntityVerifierCall(ContextTODO, entity, accept)
       IN [info |-> r.info, err |-> r.err,
           calls |-> <<[ctx |-> ContextTODO, entity |-> entity, ans |-> r]>>]
VerifyEntity(h, ctx, entity, accept) ==
  IF h.EntityVerifier = Nil
  THEN [info |-> Nil, err |-> ErrConfig, calls |-> <<>>]
  ELSE LET r == EntityVerifierCall(ctx, entity, accept)
       IN [info |-> r.info, err |-> r.err,
           calls |-> <<[ctx |-> ctx, entity |-> entity, ans |-> r]>>]

\* webOAuthHandler.CreateClaims: a new object on the heap.
CreateClaimsShared(h, hp) ==
  IF Len(hp) >= 1 THEN [ptr |-> 1, heap |-> hp]
  ELSE [ptr |-> 1, heap |-> <<NewClaims(h.AllowedAudience)>>]
CreateClaims(h, hp) ==
  [ptr |-> Len(hp) + 1, heap |-> Append(hp, NewClaims(h.AllowedAudience))]

\* webOAuthHandler.TokenVerificationKey
TokenVerificationKeyUnchecked(h, tok, reachable) ==
  LET keyID == IF tok.header.kid.t = "string" THEN tok.header.kid.s ELSE ""
      r == LookupKey(h.KeyProvider, ContextTODO, keyID, reachable)
  IN [key |-> r.key, err |-> r.err,
      lookups |-> <<[ctx |-> ContextTODO, keyID |-> keyID, ans |-> r]>>]
TokenVerificationKeyRetry(h, tok, reachable) ==
  IF tok.header.kid.t # "string"
  THEN [key |-> Nil, err |-> ErrKid, lookups |-> <<>>]
  ELSE LET keyID == tok.header.kid.s
           r == LookupKey(h.KeyProvider, ContextTODO, keyID, reachable)
           again == LookupKey(h.KeyProvider, ContextTODO, keyID, TRUE)
       IN IF r.err = NoErr
          THEN [key |-> r.key, err |-> r.err,
                lookups |-> <<[ctx |-> ContextTODO, keyID |-> keyID, ans |-> r]>>]
          ELSE [key |-> again.key, err |-> again.err,
                lookups |-> <<[ctx |-> ContextTODO, keyID |-> keyID, ans |-> r],
                              [ctx |-> ContextTODO, keyID |-> keyID, ans |-> again]>>]
TokenVerificationKeySwallow(h, tok, reachable) ==
  IF tok.header.kid.t # "string"
  THEN [key |-> Nil, err |-> ErrKid, lookups |-> <<>>]
  ELSE LET keyID == tok.header.kid.s
           r == LookupKey(h.KeyProvider, ContextTODO, keyID, reachable)
       IN [key |-> r.key, err |-> NoErr,
           lookups |-> <<[ctx |-> ContextTODO, keyID |-> keyID, ans |-> r]>>]
TokenVerificationKey(h, tok, reachable) ==
  IF tok.header.kid.t # "string"
  THEN [key |-> Nil, err |-> ErrKid, lookups |-> <<>>]
  ELSE LET keyID == tok.header.kid.s
           r == LookupKey(h.KeyProvider, ContextTODO, keyID, reachable)
       IN [key |-> r.key, err |-> r.err,
           lookups |-> <<[ctx |-> ContextTODO, keyID |-> keyID, ans |-> r]>>]

(* ------------------------------ issuer -------------------------------- *)

\* jwt.Token.SignedString: the header and the encoded claims, signed.
SignedString(header, claims, key) ==
  [header |-> header, claims |-> claims,
   sig |-> [key |-> key, over |-> [header |-> header, claims |-> claims]]]

\* SignWebAuthAccessToken(key, entity, aud, iss, keyID) at time t.
SignWebAuthAccessTokenSwapped(key, entity, aud, iss, keyID, t) ==
  SignedString(
    [typ |-> "JWT", alg |-> "RS256", kid |-> StrKid(keyID)],
    EncodeClaims([aud |-> <<iss>>, iss |-> aud, sub |-> entity,
                  exp |-> NoDate, iat |-> {t},
                  creds |-> CredentialsTypeOAuthWeb, md |-> EmailMap(entity)]),
    key)
SignWebAuthAccessToken(key, entity, aud, iss, keyID, t) ==
  SignedString(
    [typ |-> "JWT", alg |-> "RS256", kid |-> StrKid(keyID)],
    EncodeClaims([aud |-> <<aud>>, iss |-> iss, sub |-> entity,
                  exp |-> NoDate, iat |-> {t},
                  creds |-> CredentialsTypeOAuthWeb, md |-> EmailMap(entity)]),
    key)

(* ------------------------- received tokens ---------------------------- *)

\* A token as an attacker or another issuer can make it: any header key id,
\* any payload, signed with sigKey; when not intact, the payload was altered
\* after signing (the signature covers another issuer).
MakeToken(kid, payload, sigKey, intact) ==
  LET header == [typ |-> "JWT", alg |-> "RS256", kid |-> kid]
  IN [header |-> header, claims |-> payload,
      sig |-> [key |-> sigKey,
               over |-> [header |-> header,
                         claims |-> IF intact THEN payload
                                    ELSE [payload EXCEPT !.iss = "other-idp"]]]]

Payload(aud, sub, exp, iat, md) ==
  [aud |-> aud, iss |-> "idp", sub |-> sub, exp |-> exp, iat |-> iat,
   rpc_creds_type |-> CredentialsTypeOAuthWeb, rpc_auth_md |-> md]

\* Well-signed tokens with key id k1 and every audience list and dates.
ClaimTokens ==
  {MakeToken(StrKid("k1"), Payload(aud, "u123", exp, iat, EmailMap("u@example.com")),
             "priv1", TRUE) :
     aud \in AudLists, exp \in Dates, iat \in Dates}

\* Tokens for audience svc-a without dates, with every key id, signature,
\* subject and metadata.
HeaderTokens ==
  {MakeToken(kid, Payload(<<"svc-a">>, sub, NoDate, NoDate, md), sigKey, intact) :
     kid \in KidValues, sub \in Entities, md \in MetaMaps,
     sigKey \in PrivateKeys, intact \in BOOLEAN}

ReceivedTokens == ClaimTokens \cup HeaderTokens

\* The tokens of the concurrent attempts: they differ in audience and email.
ConcTokens ==
  {MakeToken(StrKid("k1"), Payload(<<"svc-a">>, "u123", NoDate, NoDate, EmailMap("u@example.com")),
             "priv1", TRUE),
   MakeToken(StrKid("k1"), Payload(<<"svc-b">>, "u123", NoDate, NoDate, EmailMap("u123")),
             "priv1", TRUE)}

(* ------------------------------- state -------------------------------- *)

VARIABLES
  cfg,          \* the handler: its WebOAuthOptions
  now,          \* the clock
  heap,         \* the webOAuthClaims objects allocated so far
  pc,           \* each attempt's position in the verification
  token,        \* each attempt's token: {} before it arrives, else {tok}
  issued,       \* the SignWebAuthAccessToken arguments of an issued token
  claims,       \* each attempt's claims pointer into heap, 0 for none
  verKey,       \* the verification key resolved for the attempt
  result,       \* the attempt's outcome: identity object and error
  lookups,      \* the key provider lookups made for the attempt
  verifies,     \* the entity verifier calls made for the attempt
  trace,        \* the steps the attempt has run, in order
  entityProbe,  \* the result of a direct Entity() call on the attempt's claims
  authResult,   \* the result of the last Authenticate call
  validAt       \* the time Valid() read for the attempt: {} before, else {t}

vars == <<cfg, now, heap, pc, token, issued, claims, verKey, result, lookups,
          verifies, trace, entityProbe, authResult, validAt>>

Tok(a) == CHOOSE t \in token[a] : TRUE
NoResult == [info |-> Nil, err |-> NoErr]

Init ==
  /\ cfg \in {WithWebOAuthTokenAuthHandler(o) : o \in WebOAuthOptions}
  /\ now = 0
  /\ heap = <<>>
  /\ pc = [a \in Attempts |-> "Idle"]
  /\ token = [a \in Attempts |-> {}]
  /\ issued = [a \in Attempts |-> {}]
  /\ claims = [a \in Attempts |-> 0]
  /\ verKey = [a \in Attempts |-> Nil]
  /\ result = [a \in Attempts |-> NoResult]
  /\ lookups = [a \in Attempts |-> <<>>]
  /\ verifies = [a \in Attempts |-> <<>>]
  /\ trace = [a \in Attempts |-> <<>>]
  /\ entityProbe = [a \in Attempts |-> {}]
  /\ authResult = {}
  /\ validAt = [a \in Attempts |-> {}]

Fail(a, err) ==
  /\ pc' = [pc EXCEPT ![a] = "Failure"]
  /\ result' = [result EXCEPT ![a] = [info |-> Nil, err |-> err]]

(* ------------------------------ actions ------------------------------- *)

\* The clock advances.
Tick ==
  /\ now < MaxTime
  /\ now' = now + 1
  /\ UNCHANGED <<cfg, heap, pc, token, issued, claims, verKey, result, lookups,
                 verifies, trace, entityProbe, authResult, validAt>>

\* A token minted by SignWebAuthAccessToken arrives.
Issue(a) ==
  /\ pc[a] = "Idle"
  /\ \E key \in PrivateKeys, entity \in Entities, aud \in AudStrings,
        iss \in Issuers, keyID \in KeyIDs :
       /\ token' = [token EXCEPT ![a] =
                      {SignWebAuthAccessToken(key, entity, aud, iss, keyID, now)}]
       /\ issued' = [issued EXCEPT ![a] =
                      {[key |-> key, entity |-> entity, aud |-> aud, iss |-> iss,
                        keyID |-> keyID]}]
  /\ pc' = [pc EXCEPT ![a] = "Start"]
  /\ UNCHANGED <<cfg, now, heap, claims, verKey, result, lookups, verifies,
                 trace, entityProbe, authResult, validAt>>

Arrive(a, toks) ==
  /\ pc[a] = "Idle"
  /\ \E tok \in toks : token' = [token EXCEPT ![a] = {tok}]
  /\ pc' = [pc EXCEPT ![a] = "Start"]
  /\ UNCHANGED <<cfg, now, heap, issued, claims, verKey, result, lookups,
                 verifies, trace, entityProbe, authResult, validAt>>

\* A token of any other origin arrives.
Receive(a) == Arrive(a, ReceivedTokens)
ReceiveConc(a) == Arrive(a, ConcTokens)

\* Start -> ClaimsCreated: the server asks the handler for a claims object and
\* decodes the token's payload into it.
StepCreateClaims(a) ==
  /\ pc[a] = "Start"
  /\ LET r == CreateClaims(cfg, heap)
     IN /\ claims' = [claims EXCEPT ![a] = r.ptr]
        /\ heap' = [r.heap EXCEPT ![r.ptr] = Unmarshal(@, Tok(a).claims)]
  /\ pc' = [pc EXCEPT ![a] = "ClaimsCreated"]
  /\ trace' = [trace EXCEPT ![a] = Append(@, "CreateClaims")]
  /\ UNCHANGED <<cfg, now, token, issued, verKey, result, lookups, verifies,
                 entityProbe, authResult, validAt>>

\* ClaimsCreated -> KeyResolved: the server's key function.
StepResolveKey(a) ==
  /\ pc[a] = "ClaimsCreated"
  /\ \E reachable \in BOOLEAN :
       LET r == TokenVerificationKey(cfg, Tok(a), reachable)
       IN /\ lookups' = [lookups EXCEPT ![a] = @ \o r.lookups]
          /\ IF r.err # NoErr
             THEN Fail(a, r.err) /\ UNCHANGED verKey
             ELSE /\ verKey' = [verKey EXCEPT ![a] = r.key]
                  /\ pc' = [pc EXCEPT ![a] = "KeyResolved"]
                  /\ UNCHANGED result
  /\ trace' = [trace EXCEPT ![a] = Append(@, "TokenVerificationKey")]
  /\ UNCHANGED <<cfg, now, heap, token, issued, claims, verifies, entityProbe,
                 authResult, validAt>>

\* KeyResolved -> SignatureVerified
StepVerifySignature(a) ==
  /\ pc[a] = "KeyResolved"
  /\ IF RS256Verify(Tok(a), verKey[a])
     THEN pc' = [pc EXCEPT ![a] = "SignatureVerified"] /\ UNCHANGED result
     ELSE Fail(a, ErrSignature)
  /\ trace' = [trace EXCEPT ![a] = Append(@, "Verify")]
  /\ UNCHANGED <<cfg, now, heap, token, issued, claims, verKey, lookups,
                 verifies, entityProbe, authResult, validAt>>

\* SignatureVerified -> SemanticallyValid
StepValid(a) ==
  /\ pc[a] = "SignatureVerified"
  /\ LET err == Valid(heap[claims[a]], now)
     IN IF err = NoErr
        THEN pc' = [pc EXCEPT ![a] = "SemanticallyValid"] /\ UNCHANGED result
        ELSE Fail(a, err)
  /\ validAt' = [validAt EXCEPT ![a] = {now}]
  /\ trace' = [trace EXCEPT ![a] = Append(@, "Valid")]
  /\ UNCHANGED <<cfg, now, heap, token, issued, claims, verKey, lookups,
                 verifies, entityProbe, authResult>>

\* SemanticallyValid -> EntityVerified: the entity of the claims goes to the
\* handler's VerifyEntity.
StepVerifyEntity(a) ==
  /\ pc[a] = "SemanticallyValid"
  /\ LET e == Entity(heap[claims[a]])
     IN IF e.err # NoErr
        THEN /\ Fail(a, e.err)
             /\ trace' = [trace EXCEPT ![a] = Append(@, "Entity")]
             /\ UNCHANGED verifies
        ELSE \E accept \in BOOLEAN :
               LET r == VerifyEntity(cfg, Ctx(a), e.entity, accept)
               IN /\ verifies' = [verifies EXCEPT ![a] = @ \o r.calls]
                  /\ trace' = [trace EXCEPT ![a] = @ \o <<"Entity", "VerifyEntity">>]
                  /\ result' = [result EXCEPT ![a] = [info |-> r.info, err |-> r.err]]
                  /\ pc' = [pc EXCEPT ![a] =
                              IF r.err = NoErr THEN "Success" ELSE "Failure"]
  /\ UNCHANGED <<cfg, now, heap, token, issued, claims, verKey, lookups,
                 entityProbe, authResult, validAt>>

\* Entity() called on the attempt's claims at any time after they exist.
CallEntity(a) ==
  /\ claims[a] # 0
  /\ entityProbe[a] = {}
  /\ entityProbe' = [entityProbe EXCEPT ![a] = {Entity(heap[claims[a]])}]
  /\ UNCHANGED <<cfg, now, heap, pc, token, issued, claims, verKey, result,
                 lookups, verifies, trace, authResult, validAt>>

\* Authenticate called with any entity and payload, at any time.
CallAuthenticate(a) ==
  /\ \E entity \in Entities, payload \in {"", "secret"} :
       LET r == Authenticate(cfg, Ctx(a), entity, payload)
       IN /\ authResult' = {r}
          /\ lookups' = [lookups EXCEPT ![a] = @ \o r.lookups]
          /\ verifies' = [verifies EXCEPT ![a] = @ \o r.verifies]
  /\ authResult = {}
  /\ UNCHANGED <<cfg, now, heap, pc, token, issued, claims, verKey, result,
                 trace, entityProbe, validAt>>

\* One verification attempt at a time, over every token.
Next ==
  \/ Tick
  \/ Issue(1)
  \/ Receive(1)
  \/ StepCreateClaims(1)
  \/ StepResolveKey(1)
  \/ StepVerifySignature(1)
  \/ StepValid(1)
  \/ StepVerifyEntity(1)
  \/ CallEntity(1)
  \/ CallAuthenticate(1)

Spec == Init /\ [][Next]_vars

\* Concurrent verification attempts on the one handler.
NextConc ==
  \E a \in Attempts :
    \/ ReceiveConc(a)
    \/ StepCreateClaims(a)
    \/ StepResolveKey(a)
    \/ StepVerifySignature(a)
    \/ StepValid(a)
    \/ StepVerifyEntity(a)
    \/ CallAuthenticate(a)

SpecConc == Init /\ [][NextConc]_vars

(* ----------------------------- properties ----------------------------- *)

Ran(a, step) == \E i \in 1..Len(trace[a]) : trace[a][i] = step
Obj(a) == heap[claims[a]]
Contains(aud, x) == \E i \in 1..Len(aud) : aud[i] = x
HasNonEmpty(aud) == \E i \in 1..Len(aud) : aud[i] # ""
BaseErrors == {ErrExpired, ErrIssuedAt}
Steps == <<"CreateClaims", "TokenVerificationKey", "Verify", "Valid", "Entity",
           "VerifyEntity">>
IsPrefix(s, t) == Len(s) <= Len(t) /\ \A i \in 1..Len(s) : s[i] = t[i]

\* C1: whenever Valid() has run on a token whose audience list does not
\* contain the handler's allowed audience (an empty list included), the
\* attempt has failed with the invalid-audience error, whatever the dates are.
C1_InvalidAudience ==
  \A a \in Attempts :
    (validAt[a] # {} /\ ~Contains(Tok(a).claims.aud, cfg.AllowedAudience))
      => (pc[a] = "Failure" /\ result[a].err = ErrAud)

\* Valid() returned the audience error on a token whose dates would fail the
\* base validation as well.
C1_Witness ==
  \E a \in Attempts :
    /\ validAt[a] # {}
    /\ ~Contains(Tok(a).claims.aud, cfg.AllowedAudience)
    /\ Len(Tok(a).claims.aud) > 0
    /\ \E t \in validAt[a] : \E e \in Tok(a).claims.exp : t >= e
    /\ result[a].err = ErrAud

\* C2 as stated, in its weaker half: with the allowed audience in the list, a
\* missing or expired temporal claim makes Valid() fail (the claim adds that
\* the failure is the base validation's).
C2_MissingOrExpiredFails ==
  \A a \in Attempts :
    (/\ validAt[a] # {}
     /\ Contains(Tok(a).claims.aud, cfg.AllowedAudience)
     /\ \/ Tok(a).claims.exp = NoDate
        \/ Tok(a).claims.iat = NoDate
        \/ \E t \in validAt[a] : \E e \in Tok(a).claims.exp : t >= e)
      => pc[a] = "Failure"

\* C2 amended: with the allowed audience in a list that has a non-empty
\* entry, Valid() fails in the base validation when the expiry has passed or
\* the issued-at lies ahead, and passes when neither is the case: a date that
\* is missing is not checked.
C2_ExpiredFails ==
  \A a \in Attempts :
    (/\ validAt[a] # {}
     /\ Contains(Tok(a).claims.aud, cfg.AllowedAudience)
     /\ HasNonEmpty(Tok(a).claims.aud))
      => \E t \in validAt[a] :
           IF \/ \E e \in Tok(a).claims.exp : t >= e
              \/ \E i \in Tok(a).claims.iat : t < i
           THEN pc[a] = "Failure" /\ result[a].err \in BaseErrors
           ELSE result[a].err \notin BaseErrors \cup {ErrAud}

\* Valid() failed in the base validation on an expired token with the right
\* audience.
C2_Witness ==
  \E a \in Attempts :
    /\ validAt[a] # {}
    /\ Contains(Tok(a).claims.aud, cfg.AllowedAudience)
    /\ \E t \in validAt[a] : \E e \in Tok(a).claims.exp : t >= e
    /\ pc[a] = "Failure"
    /\ result[a].err = ErrExpired

\* C3: whenever TokenVerificationKey has run on a token whose header has no
\* kid or a kid that is not a string, the attempt has failed with the
\* invalid-key-identifier error and no key provider lookup was made for it.
C3_InvalidKid ==
  \A a \in Attempts :
    (Ran(a, "TokenVerificationKey") /\ Tok(a).header.kid.t # "string")
      => (pc[a] = "Failure" /\ result[a].err = ErrKid /\ lookups[a] = <<>>)

\* TokenVerificationKey rejected a token whose kid is a number.
C3_Witness ==
  \E a \in Attempts :
    /\ Ran(a, "TokenVerificationKey")
    /\ Tok(a).header.kid.t = "number"
    /\ result[a].err = ErrKid

\* C4: the steps of an attempt run in the order CreateClaims, key resolution,
\* signature verification, Valid(), Entity()/VerifyEntity; a step has run only
\* if every earlier one succeeded; a failed attempt stopped at the step that
\* failed; success is reached only after all steps; and a failed key lookup
\* fails the attempt with the lookup's error without Valid() being evaluated.
C4_StepOrder ==
  \A a \in Attempts :
    /\ IsPrefix(trace[a], Steps)
    /\ Ran(a, "Verify") =>
         (Len(lookups[a]) > 0 /\ lookups[a][Len(lookups[a])].ans.err = NoErr)
    /\ Ran(a, "Valid") => RS256Verify(Tok(a), verKey[a])
    /\ Ran(a, "Entity") => \E t \in validAt[a] : Valid(Obj(a), t) = NoErr
    /\ Ran(a, "VerifyEntity") => Entity(Obj(a)).err = NoErr
    /\ pc[a] = "Success" => (trace[a] = Steps /\ result[a].err = NoErr)
    /\ pc[a] = "Failure" =>
         /\ result[a].err # NoErr
         /\ Len(trace[a]) >= 2
         /\ Len(trace[a]) = 3 => ~RS256Verify(Tok(a), verKey[a])
         /\ Len(trace[a]) = 4 => \E t \in validAt[a] : Valid(Obj(a), t) = result[a].err
         /\ Len(trace[a]) = 5 => Entity(Obj(a)).err = result[a].err
    /\ (Len(lookups[a]) > 0 /\ lookups[a][1].ans.err # NoErr) =>
         /\ pc[a] = "Failure"
         /\ result[a].err = lookups[a][1].ans.err
         /\ ~Ran(a, "Valid")

\* The provider did not know the token's key id and the attempt failed with
\* the lookup error.
C4_Witness ==
  \E a \in Attempts :
    /\ token[a] # {}
    /\ Tok(a).header.kid = StrKid("k-missing")
    /\ Len(lookups[a]) = 1
    /\ pc[a] = "Failure"
    /\ result[a].err = ErrKeyNotFound
    /\ trace[a] = <<"CreateClaims", "TokenVerificationKey">>

\* The attempt's token was issued by SignWebAuthAccessToken with arguments p
\* for this handler: the audience is the allowed one and the provider serves
\* the public key of the signing key under the key id.
IssuedFor(a, p) ==
  /\ p.aud = cfg.AllowedAudience
  /\ p.keyID \in DOMAIN cfg.KeyProvider
  /\ <<p.key, cfg.KeyProvider[p.keyID]>> \in KeyPairs
  /\ \A i \in 1..Len(lookups[a]) : lookups[a][i].ans.err = NoErr

RoundTrip(a, p) ==
  /\ result[a].err \notin {ErrKid, ErrKeyNotFound, ErrSignature, ErrAud, ErrExpired,
                           ErrIssuedAt, ErrEmail}
  /\ \A r \in entityProbe[a] : r = [entity |-> p.entity, err |-> NoErr]
  /\ \A i \in 1..Len(verifies[a]) : verifies[a][i].entity = p.entity

\* C5 as stated: for every entity, audience, issuer and key id, an issued
\* token passes key resolution, signature verification and Valid() on a
\* matching handler, and Entity() yields the entity given to the issuer.
C5_RoundTripAnyAudience ==
  \A a \in Attempts : \A p \in issued[a] : IssuedFor(a, p) => RoundTrip(a, p)

\* C5 amended: the same for every audience that is not the empty string.
C5_RoundTrip ==
  \A a \in Attempts : \A p \in issued[a] :
    (IssuedFor(a, p) /\ p.aud # "") => RoundTrip(a, p)

\* The token of the design document's example passed Valid() and Entity()
\* returned the issuer's entity.
C5_Witness ==
  \E a \in Attempts : \E p \in issued[a] :
    /\ IssuedFor(a, p)
    /\ p.aud = "svc-a" /\ p.keyID = "k1" /\ p.entity = "u@example.com"
    /\ pc[a] = "SemanticallyValid"
    /\ entityProbe[a] = {[entity |-> "u@example.com", err |-> NoErr]}

\* C6: Entity(), whenever called, returns the value under "email" of the
\* token's metadata when that key is present and the missing-attribute error
\* when it is not, whether Valid() has run, passed or failed; the entity
\* handed to VerifyEntity is that value too, never the subject.
C6_EntityFromEmail ==
  \A a \in Attempts :
    LET md == Tok(a).claims.rpc_auth_md
    IN /\ \A r \in entityProbe[a] :
            IF "email" \in DOMAIN md
            THEN r = [entity |-> md["email"], err |-> NoErr]
            ELSE r = [entity |-> "", err |-> ErrEmail]
       /\ \A i \in 1..Len(verifies[a]) :
            "email" \in DOMAIN md /\ verifies[a][i].entity = md["email"]
       /\ (Ran(a, "Entity") /\ "email" \notin DOMAIN md) =>
            (pc[a] = "Failure" /\ result[a].err = ErrEmail)

\* Entity() failed on claims that passed Valid() and lack the email.
C6_Witness ==
  \E a \in Attempts :
    /\ \E t \in validAt[a] : Valid(Obj(a), t) = NoErr
    /\ "email" \notin DOMAIN Tok(a).claims.rpc_auth_md
    /\ entityProbe[a] = {[entity |-> "", err |-> ErrEmail]}
    /\ Ran(a, "Entity")

\* C7: once VerifyEntity has run, a handler without a verifier has failed the
\* attempt with the configuration error and called nothing; a handler with a
\* verifier has called it exactly once, with the attempt's context and the
\* entity, and the attempt's result is the verifier's answer unmodified.
C7_VerifyEntity ==
  \A a \in Attempts :
    Ran(a, "VerifyEntity") =>
      IF cfg.EntityVerifier = Nil
      THEN /\ verifies[a] = <<>>
           /\ pc[a] = "Failure"
           /\ result[a] = [info |-> Nil, err |-> ErrConfig]
      ELSE /\ Len(verifies[a]) = 1
           /\ verifies[a][1].ctx = Ctx(a)
           /\ verifies[a][1].entity = Tok(a).claims.rpc_auth_md["email"]
           /\ result[a] = verifies[a][1].ans
           /\ pc[a] = IF verifies[a][1].ans.err = NoErr THEN "Success" ELSE "Failure"

\* The verifier rejected the entity and its error is the attempt's result.
C7_Witness ==
  \E a \in Attempts :
    /\ Ran(a, "VerifyEntity")
    /\ cfg.EntityVerifier # Nil
    /\ Len(verifies[a]) = 1
    /\ result[a].err = ErrRejected

\* C8: every Authenticate call has failed with the unimplemented error,
\* returned no metadata and called neither the key provider nor the verifier.
C8_AuthenticateFails ==
  \A r \in authResult :
    /\ r.err = ErrUnimplemented
    /\ r.md = Nil
    /\ r.lookups = <<>>
    /\ r.verifies = <<>>

\* Authenticate was called on a handler that has a verifier configured.
C8_Witness ==
  /\ authResult # {}
  /\ cfg.EntityVerifier # Nil
  /\ cfg.AllowedAudience = "svc-a"

\* C9: once TokenVerificationKey has run on a token with a string kid, exactly
\* one lookup was made, with that kid and the unscoped context; a failed
\* lookup is the attempt's failure, and a successful one gave the attempt the
\* provider's key for that kid.
C9_KeyPassThrough ==
  \A a \in Attempts :
    (Ran(a, "TokenVerificationKey") /\ Tok(a).header.kid.t = "string") =>
      /\ Len(lookups[a]) = 1
      /\ lookups[a][1].keyID = Tok(a).header.kid.s
      /\ lookups[a][1].ctx = ContextTODO
      /\ LET ans == lookups[a][1].ans
         IN IF ans.err # NoErr
            THEN pc[a] = "Failure" /\ result[a].err = ans.err /\ verKey[a] = Nil
            ELSE verKey[a] = ans.key /\ verKey[a] = cfg.KeyProvider[Tok(a).header.kid.s]

\* The provider was unreachable and the attempt failed at once with its error.
C9_Witness ==
  \E a \in Attempts :
    /\ token[a] # {}
    /\ Tok(a).header.kid = StrKid("k2")
    /\ Len(lookups[a]) = 1
    /\ lookups[a][1].ans.err = ErrKeyUnreachable
    /\ pc[a] = "Failure"

\* The outcome of an attempt that runs alone, from its token and the answers
\* the collaborators gave it.
Solo(a) ==
  LET tok == Tok(a)
      c == Unmarshal(NewClaims(cfg.AllowedAudience), tok.claims)
      kr == IF tok.header.kid.t # "string" THEN [key |-> Nil, err |-> ErrKid]
            ELSE lookups[a][1].ans
      verr == CHOOSE e \in {Valid(c, t) : t \in validAt[a]} : TRUE
  IN IF kr.err # NoErr THEN [info |-> Nil, err |-> kr.err]
     ELSE IF ~RS256Verify(tok, kr.key) THEN [info |-> Nil, err |-> ErrSignature]
     ELSE IF verr # NoErr THEN [info |-> Nil, err |-> verr]
     ELSE IF "email" \notin DOMAIN c.md THEN [info |-> Nil, err |-> ErrEmail]
     ELSE IF cfg.EntityVerifier = Nil THEN [info |-> Nil, err |-> ErrConfig]
     ELSE verifies[a][1].ans

C10_Isolated ==
  /\ \A a, b \in Attempts :
       (a # b /\ claims[a] # 0 /\ claims[b] # 0) => claims[a] # claims[b]
  /\ \A a \in Attempts :
       /\ claims[a] # 0 =>
            /\ claims[a] \in 1..Len(heap)
            /\ Obj(a).allowedAudience = cfg.AllowedAudience
       /\ pc[a] \in {"Success", "Failure"} => result[a] = Solo(a)

\* C10: under any interleaving of concurrent attempts, every attempt's claims
\* object is its own and carries the handler's allowed audience, a finished
\* attempt has the outcome it would have alone, and no step changes the
\* handler's configuration.
C10_Concurrent == [](C10_Isolated) /\ [][cfg' = cfg]_vars

\* Two attempts on different tokens have finished, one in success and one in
\* failure, each with its own claims object.
C10_Witness ==
  \E a, b \in Attempts :
    /\ a # b
    /\ pc[a] = "Success"
    /\ pc[b] = "Failure"
    /\ Tok(a) # Tok(b)
    /\ claims[a] > claims[b]

====
